---- MODULE Spec2Model ----
(***************************************************************************)
(* Employee attendance management: the store (tables, row-level security   *)
(* policies, triggers and functions of the SQL migrations) and the page    *)
(* handlers that issue requests against it.                                *)
(*                                                                         *)
(* Instants are whole seconds since the epoch, in UTC (the client sends    *)
(* Date.toISOString(), the session time zone of the store is UTC).         *)
(* A nullable column holds NULL (the empty tuple) or Some(v) (a 1-tuple).  *)
(* total_hours, a DECIMAL(4,2), is held in hundredths of an hour.          *)
(***************************************************************************)
EXTENDS Integers, Sequences, FiniteSets, TLC

VARIABLES
    user_roles,   \* table user_roles: [user_id, role] -> number of rows
    attendance,   \* table attendance: set of rows
    settings,     \* table settings, row key = 'late_threshold': NULL or Some(value)
    nextId,       \* number of attendance ids handed out (gen_random_uuid is fresh)
    now,          \* the current instant
    sess,         \* per browser session: state of the Dashboard page
    response,     \* the store's answer to the latest direct request
    profiles,     \* table profiles: set of rows
    invitations,  \* table invitations: set of rows
    employee_id_seq, \* sequence employee_id_seq: the value nextval returned last
    auth_users,   \* table auth.users: the rows in the order they were inserted
    auth,         \* per visitor: state of the Auth page
    team,         \* per browser session: state of the Team Attendance page
    page          \* state of the Settings page

\* what registration, invitations and the pages of managers keep
registry == <<profiles, invitations, employee_id_seq, auth_users, auth, team, page>>

vars == <<user_roles, attendance, settings, nextId, now, sess, response, registry>>

(***************************************************************************)
(* Bounds of the model                                                     *)
(***************************************************************************)
MaxDay == 1
MaxRecords == 2
MaxSignUps == 2
MaxInvitations == 1

(***************************************************************************)
(* Values                                                                  *)
(***************************************************************************)
NULL == <<>>
Some(v) == <<v>>
Val(o) == o[1]

Users == {"u1", "u2", "m1"}
\* the ids auth.users hands to identities that register later, in this order
NewIds == <<"n1", "n2", "n3", "n4">>
NewUsers == {NewIds[i] : i \in 1..MaxSignUps}
Identities == Users \cup NewUsers
\* the enum user_role of the first migration, the type of profiles.role
user_role == {"employee", "manager"}
app_role == {"admin", "manager", "employee"}
attendance_status == {"present", "absent", "late", "half-day"}

Sessions == {"s1", "s2"}
SessionUser(s) == "u1"

SecondsPerHour == 3600
SecondsPerDay == 24 * SecondsPerHour
DateOf(t) == t \div SecondsPerDay

\* times of day the clock visits: 09:15:00 and 17:15:10
TimesOfDay == {33300, 62110}
Days == 0..MaxDay
Instants == {d * SecondsPerDay + t : d \in Days, t \in TimesOfDay}

(***************************************************************************)
(* Text. A text the code measures, trims or pads is a sequence of           *)
(* one-character strings; a text it only stores and compares is a string.  *)
(***************************************************************************)
DigitChars == <<"0", "1", "2", "3", "4", "5", "6", "7", "8", "9">>

\* bigint :: TEXT
RECURSIVE ToText(_)
ToText(n) ==
    IF n < 10 THEN <<DigitChars[n + 1]>>
    ELSE ToText(n \div 10) \o <<DigitChars[(n % 10) + 1]>>

\* LPAD(string, length, fill): fills on the left up to length, and cuts the
\* string to its first length characters when it is longer
LPAD(string, length, fill) ==
    IF Len(string) >= length
    THEN SubSeq(string, 1, length)
    ELSE [i \in 1..length |->
            IF i <= length - Len(string) THEN fill
            ELSE string[i - (length - Len(string))]]

EmployeeIdPrefix == <<"E", "M", "P">>
EmployeeIdDigits == 4

\* 'EMP' || LPAD(nextval('employee_id_seq')::TEXT, 4, '0')
EmployeeId(n) == EmployeeIdPrefix \o LPAD(ToText(n), EmployeeIdDigits, "0")

\* String.prototype.trim, as zod's .trim() applies it
RECURSIVE TrimStart(_)
TrimStart(t) ==
    IF t # <<>> /\ Head(t) = " " THEN TrimStart(Tail(t)) ELSE t

RECURSIVE TrimEnd(_)
TrimEnd(t) ==
    IF t # <<>> /\ t[Len(t)] = " " THEN TrimEnd(SubSeq(t, 1, Len(t) - 1)) ELSE t

Trim(t) == TrimEnd(TrimStart(t))

(***************************************************************************)
(* has_role and the row-level security policies                            *)
(***************************************************************************)
has_role(_user_id, _role) ==
    /\ <<_user_id, _role>> \in DOMAIN user_roles
    /\ user_roles[<<_user_id, _role>>] > 0

IsPrivileged(uid) == has_role(uid, "manager") \/ has_role(uid, "admin")

\* policies on user_roles: SELECT for everyone, INSERT for managers and admins.
\* No UPDATE and no DELETE policy exists, so row-level security hides every
\* row from those statements.
UserRolesInsertCheck(uid, row) == has_role(uid, "manager") \/ has_role(uid, "admin")
UserRolesUpdateUsing(uid, row) == FALSE
\* a delete policy on user_roles for managers and admins
UserRolesDeleteUsing_Privileged(uid, row) == has_role(uid, "manager") \/ has_role(uid, "admin")
UserRolesDeleteUsing(uid, row) == FALSE

\* policies on attendance
\* the insert policy widened the way the update policy is
AttendanceInsertCheck_OrPrivileged(uid, row) ==
    \/ uid = row.user_id
    \/ has_role(uid, "manager")
    \/ has_role(uid, "admin")
AttendanceInsertCheck(uid, row) == uid = row.user_id
\* the update policy without the owner test
AttendanceUpdateUsing_NoOwner(uid, row) ==
    \/ has_role(uid, "manager")
    \/ has_role(uid, "admin")
AttendanceUpdateUsing(uid, row) ==
    \/ uid = row.user_id
    \/ has_role(uid, "manager")
    \/ has_role(uid, "admin")
\* the select policy without the admin role
AttendanceSelectUsing_NoAdmin(uid, row) ==
    \/ uid = row.user_id
    \/ has_role(uid, "manager")
AttendanceSelectUsing(uid, row) ==
    \/ uid = row.user_id
    \/ has_role(uid, "manager")
    \/ has_role(uid, "admin")
\* the delete policy letting the owner in, as the update policy does
AttendanceDeleteUsing_OrOwner(uid, row) ==
    \/ uid = row.user_id
    \/ has_role(uid, "manager")
    \/ has_role(uid, "admin")
AttendanceDeleteUsing(uid, row) ==
    \/ has_role(uid, "manager")
    \/ has_role(uid, "admin")

\* policies on settings: SELECT for everyone, ALL for managers and admins
SettingsSelectUsing(uid) == TRUE
\* the settings policy open to every authenticated identity
SettingsWriteUsing_Anyone(uid) == TRUE
SettingsWriteUsing(uid) == has_role(uid, "manager") \/ has_role(uid, "admin")

\* policies on profiles: SELECT for everyone, UPDATE and INSERT of the own row
ProfilesSelectUsing(uid, row) == TRUE
ProfilesUpdateUsing(uid, row) == uid = row.id
ProfilesInsertCheck(uid, row) == uid = row.id

\* policies on invitations: SELECT, INSERT and UPDATE for managers and
\* admins. A visitor without a session (uid = "") holds no role.
InvitationsSelectUsing(uid, row) == has_role(uid, "manager") \/ has_role(uid, "admin")
InvitationsInsertCheck(uid, row) == has_role(uid, "manager") \/ has_role(uid, "admin")
InvitationsUpdateUsing(uid, row) == has_role(uid, "manager") \/ has_role(uid, "admin")

(***************************************************************************)
(* is_late_check_in                                                        *)
(***************************************************************************)
DefaultLateHours == 9
DefaultLateMinutes == 15

\* a TIME value
make_time(h, m, s) == [h |-> h, m |-> m, s |-> s]
\* timestamptz :: TIME, in the session time zone
CastTime(t) ==
    LET tod == t % SecondsPerDay
    IN  [h |-> tod \div SecondsPerHour,
         m |-> (tod % SecondsPerHour) \div 60,
         s |-> tod % 60]
TimeGreater(a, b) ==
    \/ a.h > b.h
    \/ a.h = b.h /\ a.m > b.m
    \/ a.h = b.h /\ a.m = b.m /\ a.s > b.s

\* is_late_check_in comparing with >= in place of >
is_late_check_in_AtOrAfter(check_in_time) ==
    LET found == settings # NULL
        late_hours == IF found THEN Val(settings).hours ELSE DefaultLateHours
        late_minutes == IF found THEN Val(settings).minutes ELSE DefaultLateMinutes
        threshold_time == make_time(late_hours, late_minutes, 0)
        check_in_time_only == CastTime(check_in_time)
    IN  ~TimeGreater(threshold_time, check_in_time_only)

is_late_check_in(check_in_time) ==
    LET found == settings # NULL
        late_hours == IF found THEN Val(settings).hours ELSE DefaultLateHours
        late_minutes == IF found THEN Val(settings).minutes ELSE DefaultLateMinutes
        threshold_time == make_time(late_hours, late_minutes, 0)
        check_in_time_only == CastTime(check_in_time)
    IN  TimeGreater(check_in_time_only, threshold_time)

(***************************************************************************)
(* calculate_total_hours (BEFORE INSERT OR UPDATE ON attendance)           *)
(***************************************************************************)
\* total_hours DECIMAL(4,2): the numeric is rounded to two decimals, half
\* away from zero; the result is in hundredths of an hour
RoundHundredths(seconds) ==
    IF seconds >= 0
    THEN (seconds * 100 + SecondsPerHour \div 2) \div SecondsPerHour
    ELSE 0 - ((0 - seconds) * 100 + SecondsPerHour \div 2) \div SecondsPerHour

\* precision 4: the absolute value must round to less than 10^2
DecimalLimit == 10000
FitsDecimal(h) == h < DecimalLimit /\ h > 0 - DecimalLimit

\* calculate_total_hours counting whole hours only
calculate_total_hours_WholeHours(new) ==
    IF new.check_in_time # NULL /\ new.check_out_time # NULL
    THEN [new EXCEPT !.total_hours =
            Some(100 * ((Val(new.check_out_time) - Val(new.check_in_time))
                        \div SecondsPerHour))]
    ELSE new

calculate_total_hours(new) ==
    IF new.check_in_time # NULL /\ new.check_out_time # NULL
    THEN [new EXCEPT !.total_hours =
            Some(RoundHundredths(Val(new.check_out_time) - Val(new.check_in_time)))]
    ELSE new

(***************************************************************************)
(* Statements on attendance, as the store executes them for identity uid:  *)
(* each yields [error, rows, table]: the error ("" when none), the number  *)
(* of rows written and the table afterwards.                               *)
(***************************************************************************)
Reply(error, rows, table) == [error |-> error, rows |-> rows, table |-> table]

\* attendance without its UNIQUE(user_id, date) constraint
AttendanceUnique_Missing(row, table) == TRUE

\* UNIQUE(user_id, date)
AttendanceUnique(row, table) ==
    \A r \in table : r.id = row.id \/ r.user_id # row.user_id \/ r.date # row.date

\* a row as INSERT builds it: column defaults for what the statement omits
NewAttendance(id, values) ==
    LET blank == [id |-> id, user_id |-> "", date |-> 0,
                  check_in_time |-> NULL, check_out_time |-> NULL,
                  status |-> "present", total_hours |-> NULL,
                  modified_by |-> NULL, modified_at |-> NULL,
                  original_status |-> NULL, modification_reason |-> NULL]
    IN  [f \in DOMAIN blank |-> IF f \in DOMAIN values THEN values[f] ELSE blank[f]]

InsertAttendance(uid, values) ==
    LET new == calculate_total_hours(NewAttendance(nextId + 1, values))
    IN  IF new.total_hours # NULL /\ ~FitsDecimal(Val(new.total_hours))
        THEN Reply("numeric_overflow", 0, attendance)
        ELSE IF ~AttendanceInsertCheck(uid, new)
        THEN Reply("rls_violation", 0, attendance)
        ELSE IF ~AttendanceUnique(new, attendance)
        THEN Reply("unique_violation", 0, attendance)
        ELSE Reply("", 1, attendance \cup {new})

\* UPDATE attendance SET patch WHERE id = id. Rows the policy hides are not
\* updated and no error is raised; the new row must pass the policy as well.
UpdateAttendance(uid, id, patch) ==
    LET target == {r \in attendance : r.id = id /\ AttendanceUpdateUsing(uid, r)
                                                /\ AttendanceSelectUsing(uid, r)}
        Patched(r) == [f \in DOMAIN r |-> IF f \in DOMAIN patch THEN patch[f] ELSE r[f]]
        NewRow(r) == calculate_total_hours(Patched(r))
        news == {NewRow(r) : r \in target}
    IN  IF \E n \in news : n.total_hours # NULL /\ ~FitsDecimal(Val(n.total_hours))
        THEN Reply("numeric_overflow", 0, attendance)
        ELSE IF \E n \in news : ~AttendanceUpdateUsing(uid, n)
        THEN Reply("rls_violation", 0, attendance)
        ELSE IF \E n \in news : ~AttendanceUnique(n, attendance)
        THEN Reply("unique_violation", 0, attendance)
        ELSE Reply("", Cardinality(target), (attendance \ target) \cup news)

\* DELETE FROM attendance WHERE id = id
DeleteAttendance(uid, id) ==
    LET target == {r \in attendance : r.id = id /\ AttendanceDeleteUsing(uid, r)
                                                /\ AttendanceSelectUsing(uid, r)}
    IN  Reply("", Cardinality(target), attendance \ target)

\* SELECT * FROM attendance
SelectAttendance(uid) == {r \in attendance : AttendanceSelectUsing(uid, r)}

(***************************************************************************)
(* Statements on user_roles                                                *)
(***************************************************************************)
\* UNIQUE (user_id, role)
UserRolesUnique(row) == user_roles[<<row.user_id, row.role>>] = 0

AddUserRole(row) ==
    [user_roles EXCEPT ![<<row.user_id, row.role>>] = @ + 1]

InsertUserRole(uid, row) ==
    IF ~UserRolesInsertCheck(uid, row)
    THEN Reply("rls_violation", 0, user_roles)
    ELSE IF ~UserRolesUnique(row)
    THEN Reply("unique_violation", 0, user_roles)
    ELSE Reply("", 1, AddUserRole(row))

\* UPDATE user_roles SET role = role WHERE user_id = row.user_id AND role = row.role
UpdateUserRole(uid, row, role) ==
    LET old == <<row.user_id, row.role>>
        n == IF UserRolesUpdateUsing(uid, row) THEN user_roles[old] ELSE 0
    IN  IF n = 0
        THEN Reply("", 0, user_roles)
        ELSE IF role # row.role /\ user_roles[<<row.user_id, role>>] + n > 1
        THEN Reply("unique_violation", 0, user_roles)
        ELSE Reply("", n, [[user_roles EXCEPT ![old] = 0]
                                EXCEPT ![<<row.user_id, role>>] = @ + n])

\* DELETE FROM user_roles WHERE user_id = row.user_id AND role = row.role
DeleteUserRole(uid, row) ==
    LET old == <<row.user_id, row.role>>
        n == IF UserRolesDeleteUsing(uid, row) THEN user_roles[old] ELSE 0
    IN  Reply("", n, [user_roles EXCEPT ![old] = @ - n])

(***************************************************************************)
(* Statements on settings, row key = 'late_threshold'                      *)
(***************************************************************************)
SelectSettings(uid) == IF SettingsSelectUsing(uid) THEN settings ELSE NULL

UpdateSettings(uid, value) ==
    IF settings # NULL /\ SettingsWriteUsing(uid)
    THEN Reply("", 1, Some(value))
    ELSE Reply("", 0, settings)

\* key is UNIQUE
InsertSettings(uid, value) ==
    IF ~SettingsWriteUsing(uid)
    THEN Reply("rls_violation", 0, settings)
    ELSE IF settings # NULL
    THEN Reply("unique_violation", 0, settings)
    ELSE Reply("", 1, Some(value))

DeleteSettings(uid) ==
    IF settings # NULL /\ SettingsWriteUsing(uid)
    THEN Reply("", 1, NULL)
    ELSE Reply("", 0, settings)

(***************************************************************************)
(* Statements on profiles                                                  *)
(***************************************************************************)
\* UPDATE profiles SET patch WHERE id = id
UpdateProfile(uid, id, patch) ==
    LET target == {r \in profiles : r.id = id /\ ProfilesUpdateUsing(uid, r)
                                              /\ ProfilesSelectUsing(uid, r)}
        Patched(r) == [f \in DOMAIN r |-> IF f \in DOMAIN patch THEN patch[f] ELSE r[f]]
        news == {Patched(r) : r \in target}
    IN  IF \E n \in news : n.role \notin user_role
        THEN Reply("invalid_text_representation", 0, profiles)
        ELSE IF \E n \in news : ~ProfilesUpdateUsing(uid, n)
        THEN Reply("rls_violation", 0, profiles)
        ELSE IF \E n \in news : \E r \in profiles \ target :
                    r.id = n.id \/ r.employee_id = n.employee_id
        THEN Reply("unique_violation", 0, profiles)
        ELSE Reply("", Cardinality(target), (profiles \ target) \cup news)

(***************************************************************************)
(* Statements on invitations                                               *)
(***************************************************************************)
InvitationLifetime == 7 * SecondsPerDay

\* INSERT INTO invitations: id and token are fresh, status is 'pending' and
\* expires_at is now() + 7 days unless the statement names them
InsertInvitation(uid, values) ==
    LET id == Cardinality(invitations) + 1
        new == [id |-> id, email |-> values.email, name |-> values.name,
                department |-> values.department, role |-> values.role,
                invited_by |-> values.invited_by, token |-> id,
                status |-> "pending", expires_at |-> now + InvitationLifetime,
                created_at |-> now]
    IN  IF new.role \notin app_role
        THEN Reply("invalid_text_representation", 0, invitations)
        ELSE IF ~InvitationsInsertCheck(uid, new)
        THEN Reply("rls_violation", 0, invitations)
        ELSE Reply("", 1, invitations \cup {new})

\* SELECT * FROM invitations WHERE token = token AND status = status
SelectInvitation(uid, token, status) ==
    {r \in invitations : r.token = token /\ r.status = status
                         /\ InvitationsSelectUsing(uid, r)}

\* UPDATE invitations SET status = status WHERE token = token
UpdateInvitationStatus(uid, token, status) ==
    LET target == {r \in invitations : r.token = token
                                       /\ InvitationsUpdateUsing(uid, r)
                                       /\ InvitationsSelectUsing(uid, r)}
        news == {[r EXCEPT !.status = status] : r \in target}
    IN  IF \E n \in news : n.status \notin {"pending", "accepted", "expired"}
        THEN Reply("check_violation", 0, invitations)
        ELSE Reply("", Cardinality(target), (invitations \ target) \cup news)

(***************************************************************************)
(* handle_new_user (AFTER INSERT ON auth.users), SECURITY DEFINER: the     *)
(* policies do not apply to what it writes. It yields the error ("" when   *)
(* none) and the tables and the sequence afterwards. An error undoes the   *)
(* inserts, and the insert into auth.users with them, but not the          *)
(* sequence: nextval is never rolled back, and the VALUES list of the      *)
(* first insert is evaluated left to right, nextval before the cast of     *)
(* the role.                                                               *)
(***************************************************************************)
\* the value -> 'key' of raw_user_meta_data: NULL when the key is missing
MetaText(meta, key) == IF key \in DOMAIN meta THEN Some(meta[key]) ELSE NULL

COALESCE(a, b) == IF a # NULL THEN Val(a) ELSE b

handle_new_user(new) ==
    LET meta == new.raw_user_meta_data
        role == MetaText(meta, "role")
        seq == employee_id_seq + 1
        profile == [id |-> new.id,
                    name |-> COALESCE(MetaText(meta, "name"), "New User"),
                    email |-> new.email,
                    employee_id |-> EmployeeId(seq),
                    department |-> COALESCE(MetaText(meta, "department"), "General"),
                    role |-> COALESCE(role, "employee")]
        grant == [user_id |-> new.id, role |-> COALESCE(role, "employee")]
        Failed(error) == [error |-> error, profiles |-> profiles,
                          user_roles |-> user_roles, employee_id_seq |-> seq]
    IN  IF role # NULL /\ Val(role) \notin user_role
        THEN Failed("invalid_text_representation")
        ELSE IF \E r \in profiles : r.id = profile.id \/ r.employee_id = profile.employee_id
        THEN Failed("unique_violation")
        ELSE IF role # NULL /\ Val(role) \notin app_role
        THEN Failed("invalid_text_representation")
        ELSE IF ~UserRolesUnique(grant)
        THEN Failed("unique_violation")
        ELSE [error |-> "", profiles |-> profiles \cup {profile},
              user_roles |-> AddUserRole(grant), employee_id_seq |-> seq]

(***************************************************************************)
(* The shape of the tables                                                 *)
(***************************************************************************)
Nullable(S) == {NULL} \cup {Some(v) : v \in S}

AttendanceRowOK(r) ==
    /\ r.id \in 1..nextId
    /\ r.user_id \in Identities
    /\ r.date \in Nat
    /\ r.check_in_time = NULL \/ Val(r.check_in_time) \in Nat
    /\ r.check_out_time = NULL \/ Val(r.check_out_time) \in Nat
    /\ r.status \in attendance_status
    /\ r.total_hours = NULL \/ FitsDecimal(Val(r.total_hours))
    /\ r.modified_by \in Nullable(Identities)
    /\ r.modified_at = NULL \/ Val(r.modified_at) \in Nat
    /\ r.original_status \in Nullable(attendance_status)
    /\ r.modification_reason = NULL \/ Len(r.modification_reason) = 1

TypeOK ==
    /\ user_roles \in [Identities \X app_role -> Nat]
    /\ \A r \in attendance : AttendanceRowOK(r)
    /\ \A r1, r2 \in attendance : r1.id = r2.id => r1 = r2
    /\ settings = NULL \/ DOMAIN Val(settings) = {"hours", "minutes"}
    /\ nextId \in 0..MaxRecords
    /\ now \in Nat
    /\ \A r \in profiles : r.id \in Identities /\ r.role \in user_role
    /\ \A r1, r2 \in profiles : r1.id = r2.id => r1 = r2
    /\ \A r \in invitations : r.role \in app_role
                               /\ r.status \in {"pending", "accepted", "expired"}
    /\ employee_id_seq \in Nat
    /\ \A i \in 1..Len(auth_users) : auth_users[i] \in Identities

(***************************************************************************)
(* Initial state: the migrations have run (the late threshold is seeded)   *)
(* and three identities have registered, two employees and a manager.      *)
(***************************************************************************)
SeedThreshold == [hours |-> 9, minutes |-> 15]

InitialRoles == {<<"u1", "employee">>, <<"u2", "employee">>, <<"m1", "manager">>}

NoToast == [op |-> "", kind |-> ""]
Toast(op, kind) == [op |-> op, kind |-> kind]

InitSession ==
    [pc |-> "idle", ckNow |-> 0, ckToday |-> 0, isLate |-> FALSE,
     todayAttendance |-> NULL, toast |-> NoToast]

NoResponse == [op |-> "", uid |-> "", key |-> 0, error |-> "", rows |-> 0, data |-> {}]

\* what handle_new_user stored for the three identities
InitialProfile(n) ==
    LET id == <<"u1", "u2", "m1">>[n]
    IN  [id |-> id, name |-> id, email |-> id, employee_id |-> EmployeeId(n),
         department |-> "General",
         role |-> IF id = "m1" THEN "manager" ELSE "employee"]

InitialAuthUsers == <<"u1", "u2", "m1">>

Visitors == {"v1"}
\* the Auth page before it is opened, and after it has navigated away
ClosedPage ==
    [open |-> FALSE, client |-> "", token |-> 0, checkUser |-> FALSE,
     loadInvitation |-> FALSE, invitationData |-> NULL, pc |-> "", user |-> "",
     toast |-> NoToast]

EditSessions == {"e1", "e2"}
EditUser(e) == IF e = "e1" THEN "m1" ELSE "u2"
\* the Team Attendance page before it has loaded anything
InitTeam ==
    [records |-> {}, record |-> NULL, pc |-> "idle", loading |-> FALSE,
     request |-> NULL, toast |-> NoToast]

\* the Settings page before anybody has opened it
ClosedSettings == [user |-> "", lateThreshold |-> SeedThreshold, toast |-> NoToast]

InitRegistry ==
    /\ profiles = {InitialProfile(n) : n \in 1..3}
    /\ invitations = {}
    /\ employee_id_seq = 3
    /\ auth_users = InitialAuthUsers
    /\ auth = [v \in Visitors |-> ClosedPage]
    /\ team = [e \in EditSessions |-> InitTeam]
    /\ page = ClosedSettings

Init ==
    /\ user_roles = [p \in Identities \X app_role |-> IF p \in InitialRoles THEN 1 ELSE 0]
    /\ attendance = {}
    /\ settings = Some(SeedThreshold)
    /\ nextId = 0
    /\ now = 33300
    /\ sess = [s \in Sessions |-> InitSession]
    /\ response = NoResponse
    /\ InitRegistry

(***************************************************************************)
(* The clock                                                               *)
(***************************************************************************)
Tick ==
    /\ \E t \in Instants : t > now /\ now' = t
    /\ UNCHANGED <<registry, user_roles, attendance, settings, nextId, sess, response>>

(***************************************************************************)
(* Dashboard page (employee view)                                          *)
(***************************************************************************)
\* what the page keeps of the row it loaded: the fields its handlers read
Loaded(r) == [id |-> r.id, check_out_time |-> r.check_out_time]

\* loadEmployeeStats: today's record of the user, if any
TodayRecord(uid, table) ==
    LET mine == {r \in table : AttendanceSelectUsing(uid, r)
                               /\ r.user_id = uid /\ r.date = DateOf(now)}
    IN  IF mine = {} THEN NULL ELSE Some(Loaded(CHOOSE r \in mine : TRUE))

\* loadData, when the page is opened or reloaded
loadData(s) ==
    /\ sess[s].pc = "idle"
    /\ has_role(SessionUser(s), "employee")
    /\ sess' = [sess EXCEPT ![s].todayAttendance = TodayRecord(SessionUser(s), attendance)]
    /\ UNCHANGED <<registry, user_roles, attendance, settings, nextId, now, response>>

\* handleCheckIn up to the answer of is_late_check_in. The Check In button is
\* shown while no record of today is loaded.
handleCheckInRpc(s) ==
    /\ sess[s].pc = "idle"
    /\ has_role(SessionUser(s), "employee")
    /\ sess[s].todayAttendance = NULL
    /\ sess' = [sess EXCEPT ![s].pc = "insert",
                            ![s].ckNow = now,
                            ![s].ckToday = DateOf(now),
                            ![s].isLate = is_late_check_in(now)]
    /\ UNCHANGED <<registry, user_roles, attendance, settings, nextId, now, response>>

CheckInValues(uid, today, t, isLate) ==
    [user_id |-> uid, date |-> today, check_in_time |-> Some(t),
     status |-> IF isLate THEN "late" ELSE "present"]

\* handleCheckIn from the insert on: the toast, and loadData on success
handleCheckInInsert(s) ==
    LET uid == SessionUser(s)
        reply == InsertAttendance(uid,
                    CheckInValues(uid, sess[s].ckToday, sess[s].ckNow, sess[s].isLate))
    IN  /\ sess[s].pc = "insert"
        /\ nextId < MaxRecords
        /\ attendance' = reply.table
        /\ nextId' = nextId + reply.rows
        /\ sess' = [sess EXCEPT
              ![s].pc = "idle", ![s].ckNow = 0, ![s].isLate = FALSE,
              ![s].toast = IF reply.error # "" THEN Toast("checkin", "error")
                           ELSE IF sess[s].isLate THEN Toast("checkin", "warning")
                           ELSE Toast("checkin", "success"),
              ![s].todayAttendance = IF reply.error # "" THEN @
                                     ELSE TodayRecord(uid, reply.table)]
        /\ UNCHANGED <<registry, user_roles, settings, now, response>>

\* handleCheckOut storing the start of the day as the check-out time
handleCheckOut_Midnight(s) ==
    LET uid == SessionUser(s)
        today == sess[s].todayAttendance
        reply == UpdateAttendance(uid, Val(today).id,
                    [check_out_time |-> Some(DateOf(now) * SecondsPerDay)])
    IN  /\ sess[s].pc = "idle"
        /\ today # NULL
        /\ Val(today).check_out_time = NULL
        /\ attendance' = reply.table
        /\ sess' = [sess EXCEPT
              ![s].toast = IF reply.error # "" THEN Toast("checkout", "error")
                           ELSE Toast("checkout", "success"),
              ![s].todayAttendance = IF reply.error # "" THEN @
                                     ELSE TodayRecord(uid, reply.table)]
        /\ UNCHANGED <<registry, user_roles, settings, nextId, now, response>>

\* handleCheckOut setting the status anew along with the check-out time
handleCheckOut_Recompute(s) ==
    LET uid == SessionUser(s)
        today == sess[s].todayAttendance
        reply == UpdateAttendance(uid, Val(today).id,
                    [check_out_time |-> Some(now), status |-> "present"])
    IN  /\ sess[s].pc = "idle"
        /\ today # NULL
        /\ Val(today).check_out_time = NULL
        /\ attendance' = reply.table
        /\ sess' = [sess EXCEPT
              ![s].toast = IF reply.error # "" THEN Toast("checkout", "error")
                           ELSE Toast("checkout", "success"),
              ![s].todayAttendance = IF reply.error # "" THEN @
                                     ELSE TodayRecord(uid, reply.table)]
        /\ UNCHANGED <<registry, user_roles, settings, nextId, now, response>>

\* handleCheckOut. The Check Out button is shown while the loaded record has
\* no check-out time.
handleCheckOut(s) ==
    LET uid == SessionUser(s)
        today == sess[s].todayAttendance
        reply == UpdateAttendance(uid, Val(today).id, [check_out_time |-> Some(now)])
    IN  /\ sess[s].pc = "idle"
        /\ today # NULL
        /\ Val(today).check_out_time = NULL
        /\ attendance' = reply.table
        /\ sess' = [sess EXCEPT
              ![s].toast = IF reply.error # "" THEN Toast("checkout", "error")
                           ELSE Toast("checkout", "success"),
              ![s].todayAttendance = IF reply.error # "" THEN @
                                     ELSE TodayRecord(uid, reply.table)]
        /\ UNCHANGED <<registry, user_roles, settings, nextId, now, response>>

(***************************************************************************)
(* Settings page                                                           *)
(***************************************************************************)
MinHours == 0
MaxHours == 23
MinMinutes == 0
MaxMinutes == 59

\* timeSchema without the upper limit of the hours
timeSchema_HoursUnlimited(v) ==
    /\ v.hours >= MinHours
    /\ v.minutes >= MinMinutes /\ v.minutes <= MaxMinutes

timeSchema(v) ==
    /\ v.hours >= MinHours /\ v.hours <= MaxHours
    /\ v.minutes >= MinMinutes /\ v.minutes <= MaxMinutes

\* what the form is saved with
SaveInputs ==
    {[hours |-> 9, minutes |-> 15], [hours |-> 9, minutes |-> 0],
     [hours |-> 24, minutes |-> 0]}

\* who opens the Settings page: an employee and a manager
SaveUsers == {"u1", "m1"}

handleSave(uid, lateThreshold) ==
    /\ IF timeSchema(lateThreshold)
       THEN settings' = UpdateSettings(uid, lateThreshold).table
       ELSE settings' = settings
    /\ UNCHANGED <<registry, user_roles, attendance, nextId, now, sess, response>>

Next ==
    \/ Tick
    \/ \E s \in Sessions : loadData(s)
    \/ \E s \in Sessions : handleCheckInRpc(s)
    \/ \E s \in Sessions : handleCheckInInsert(s)
    \/ \E s \in Sessions : handleCheckOut(s)
    \/ \E uid \in SaveUsers, v \in SaveInputs : handleSave(uid, v)

Spec == Init /\ [][Next]_vars

(***************************************************************************)
(* Direct requests: what any authenticated identity can ask of the store,  *)
(* whatever the pages offer it. Each leaves the store's answer in          *)
(* response.                                                               *)
(***************************************************************************)
Answer(op, uid, key, reply, data) ==
    [op |-> op, uid |-> uid, key |-> key,
     error |-> reply.error, rows |-> reply.rows, data |-> data]

RecordOwners == {"u1", "u2"}
RecordIds == 1..MaxRecords

\* role grants asked for
RoleInputs ==
    {[user_id |-> "u2", role |-> "admin"],
     [user_id |-> "u1", role |-> "employee"]}

\* thresholds asked for
ThresholdInputs == {[hours |-> 9, minutes |-> 15], [hours |-> 9, minutes |-> 0]}

\* updates asked for: a check-out, a change of status
AttendancePatches == {[check_out_time |-> Some(now)], [status |-> "absent"]}

ApiSelectAttendance(uid) ==
    /\ response' = Answer("select_attendance", uid, 0,
                          Reply("", Cardinality(SelectAttendance(uid)), attendance),
                          SelectAttendance(uid))
    /\ UNCHANGED <<registry, user_roles, attendance, settings, nextId, now, sess>>

ApiInsertAttendance(uid, owner) ==
    LET reply == InsertAttendance(uid,
                    CheckInValues(owner, DateOf(now), now, is_late_check_in(now)))
    IN  /\ nextId < MaxRecords
        /\ attendance' = reply.table
        /\ nextId' = nextId + reply.rows
        /\ response' = Answer("insert_attendance", uid, owner, reply, {})
        /\ UNCHANGED <<registry, user_roles, settings, now, sess>>

ApiUpdateAttendance(uid, id, patch) ==
    LET reply == UpdateAttendance(uid, id, patch)
    IN  /\ attendance' = reply.table
        /\ response' = Answer("update_attendance", uid, [id |-> id, patch |-> patch], reply, {})
        /\ UNCHANGED <<registry, user_roles, settings, nextId, now, sess>>

ApiDeleteAttendance(uid, id) ==
    LET reply == DeleteAttendance(uid, id)
    IN  /\ attendance' = reply.table
        /\ response' = Answer("delete_attendance", uid, id, reply, {})
        /\ UNCHANGED <<registry, user_roles, settings, nextId, now, sess>>

ApiInsertUserRole(uid, row) ==
    LET reply == InsertUserRole(uid, row)
    IN  /\ user_roles' = reply.table
        /\ response' = Answer("insert_user_role", uid, row, reply, {})
        /\ UNCHANGED <<registry, attendance, settings, nextId, now, sess>>

ApiUpdateUserRole(uid, row, role) ==
    LET reply == UpdateUserRole(uid, row, role)
    IN  /\ user_roles' = reply.table
        /\ response' = Answer("update_user_role", uid, row, reply, {})
        /\ UNCHANGED <<registry, attendance, settings, nextId, now, sess>>

ApiDeleteUserRole(uid, row) ==
    LET reply == DeleteUserRole(uid, row)
    IN  /\ user_roles' = reply.table
        /\ response' = Answer("delete_user_role", uid, row, reply, {})
        /\ UNCHANGED <<registry, attendance, settings, nextId, now, sess>>

ApiSelectSettings(uid) ==
    /\ response' = Answer("select_settings", uid, 0,
                          Reply("", Len(SelectSettings(uid)), settings),
                          {SelectSettings(uid)})
    /\ UNCHANGED <<registry, user_roles, attendance, settings, nextId, now, sess>>

ApiUpdateSettings(uid, value) ==
    LET reply == UpdateSettings(uid, value)
    IN  /\ settings' = reply.table
        /\ response' = Answer("update_settings", uid, value, reply, {})
        /\ UNCHANGED <<registry, user_roles, attendance, nextId, now, sess>>

ApiInsertSettings(uid, value) ==
    LET reply == InsertSettings(uid, value)
    IN  /\ settings' = reply.table
        /\ response' = Answer("insert_settings", uid, value, reply, {})
        /\ UNCHANGED <<registry, user_roles, attendance, nextId, now, sess>>

ApiDeleteSettings(uid) ==
    LET reply == DeleteSettings(uid)
    IN  /\ settings' = reply.table
        /\ response' = Answer("delete_settings", uid, 0, reply, {})
        /\ UNCHANGED <<registry, user_roles, attendance, nextId, now, sess>>

NextApi ==
    \/ \E uid \in Users : ApiSelectAttendance(uid)
    \/ \E uid \in Users, owner \in RecordOwners : ApiInsertAttendance(uid, owner)
    \/ \E uid \in Users, id \in RecordIds, patch \in AttendancePatches :
          ApiUpdateAttendance(uid, id, patch)
    \/ \E uid \in Users, id \in RecordIds : ApiDeleteAttendance(uid, id)
    \/ \E uid \in Users, row \in RoleInputs : ApiInsertUserRole(uid, row)
    \/ \E uid \in Users, row \in RoleInputs : ApiUpdateUserRole(uid, row, "manager")
    \/ \E uid \in Users, row \in RoleInputs : ApiDeleteUserRole(uid, row)
    \/ \E uid \in Users : ApiSelectSettings(uid)
    \/ \E uid \in Users, v \in ThresholdInputs : ApiUpdateSettings(uid, v)
    \/ \E uid \in Users, v \in ThresholdInputs : ApiInsertSettings(uid, v)
    \/ \E uid \in Users : ApiDeleteSettings(uid)

SpecApi == Init /\ [][NextApi]_vars

(***************************************************************************)
(* One check-in under every threshold the Settings page can store, or no   *)
(* stored threshold, at instants around the threshold                      *)
(***************************************************************************)
ValidThresholds ==
    {[hours |-> h, minutes |-> m] : h \in MinHours..MaxHours, m \in MinMinutes..MaxMinutes}

\* the threshold in force, in seconds after midnight
ThresholdSeconds ==
    IF settings = NULL THEN 9 * 3600 + 15 * 60
    ELSE Val(settings).hours * 3600 + Val(settings).minutes * 60

SecondOfDay(t) == t % (24 * 3600)

InitLate ==
    /\ user_roles = [p \in Identities \X app_role |-> IF p \in InitialRoles THEN 1 ELSE 0]
    /\ attendance = {}
    /\ settings \in {NULL} \cup {Some(v) : v \in ValidThresholds}
    /\ nextId = 0
    /\ \E d \in Days, delta \in {-1, 0, 1} :
          /\ ThresholdSeconds + delta >= 0
          /\ now = d * SecondsPerDay + ThresholdSeconds + delta
    /\ sess = [s \in Sessions |-> InitSession]
    /\ response = NoResponse
    /\ InitRegistry

NextLate ==
    \/ handleCheckInRpc("s1")
    \/ handleCheckInInsert("s1")

SpecLate == InitLate /\ [][NextLate]_vars

(***************************************************************************)
(* Team Attendance page and its edit dialog (manager view)                 *)
(***************************************************************************)
MinReason == 3
MaxReason == 500

\* editSchema accepting any reason
editSchema_AnyReason(v) == v.status \in attendance_status

\* editSchema.parse succeeds: status is one of the enum, and reason, trimmed,
\* has 3 to 500 characters
editSchema(v) ==
    /\ v.status \in attendance_status
    /\ Len(Trim(v.reason)) >= MinReason
    /\ Len(Trim(v.reason)) <= MaxReason

\* what editSchema.parse returns: the reason trimmed
Validated(v) == [status |-> v.status, reason |-> Trim(v.reason)]

\* a text of n characters
Filled(n) == [i \in 1..n |-> "x"]

\* what the dialog is submitted with
EditStatuses == {"present", "absent", "holiday"}
EditReasons ==
    {<<>>, <<" ", "o", "k", " ">>, <<" ", "f", "i", "x", " ">>, Filled(MaxReason + 1)}

\* what the page keeps of a row it loaded: the fields the dialog reads
TeamRecord(r) == [id |-> r.id, status |-> r.status]

\* loadTeamAttendance: the 100 latest records the identity may read (the
\* ledger of the model never holds that many)
loadTeamAttendance(e) ==
    /\ team[e].pc = "idle"
    /\ team' = [team EXCEPT
          ![e].records = {TeamRecord(r) : r \in SelectAttendance(EditUser(e))}]
    /\ UNCHANGED <<page, user_roles, attendance, settings, nextId, now, sess, response,
                   profiles, invitations, employee_id_seq, auth_users, auth>>

\* the Edit button of a row of the table: the dialog opens on that row
openEdit(e, record) ==
    /\ team[e].pc = "idle"
    /\ team[e].record = NULL
    /\ record \in team[e].records
    /\ team' = [team EXCEPT ![e].record = Some(record)]
    /\ UNCHANGED <<page, user_roles, attendance, settings, nextId, now, sess, response,
                   profiles, invitations, employee_id_seq, auth_users, auth>>

\* onOpenChange(false): the dialog is dismissed
closeEdit(e) ==
    /\ team[e].pc = "idle"
    /\ team[e].record # NULL
    /\ team' = [team EXCEPT ![e].record = NULL]
    /\ UNCHANGED <<page, user_roles, attendance, settings, nextId, now, sess, response,
                   profiles, invitations, employee_id_seq, auth_users, auth>>

\* the update handleSubmit sends for the validated form
EditPatch(uid, record, validated) ==
    [status |-> validated.status,
     modified_by |-> Some(uid),
     modified_at |-> Some(now),
     original_status |-> IF record.status # validated.status
                         THEN Some(record.status) ELSE NULL,
     modification_reason |-> Some(validated.reason)]

\* handleSubmit up to the request: a form editSchema refuses ends the
\* handler with an error toast, before setLoading(true)
handleSubmit(e, status, reason) ==
    LET form == [status |-> status, reason |-> reason]
        record == Val(team[e].record)
    IN  /\ team[e].pc = "idle"
        /\ team[e].record # NULL
        /\ IF editSchema(form)
           THEN team' = [team EXCEPT
                   ![e].pc = "update",
                   ![e].loading = TRUE,
                   ![e].request = Some([id |-> record.id,
                                        patch |-> EditPatch(EditUser(e), record,
                                                            Validated(form))])]
           ELSE team' = [team EXCEPT
                   ![e].loading = FALSE,
                   ![e].toast = Toast("edit", "error")]
        /\ UNCHANGED <<page, user_roles, attendance, settings, nextId, now, sess, response,
                       profiles, invitations, employee_id_seq, auth_users, auth>>

\* handleSubmit whose update leaves the stored modifier of an edited record
handleSubmitUpdate_KeepModifier(e) ==
    LET uid == EditUser(e)
        request == Val(team[e].request)
        edited == \E r \in attendance : r.id = request.id /\ r.modified_by # NULL
        patch == IF edited
                 THEN [f \in DOMAIN request.patch \ {"modified_by"} |->
                          request.patch[f]]
                 ELSE request.patch
        reply == UpdateAttendance(uid, request.id, patch)
    IN  /\ team[e].pc = "update"
        /\ attendance' = reply.table
        /\ team' = [team EXCEPT
              ![e].pc = "idle",
              ![e].loading = FALSE,
              ![e].request = NULL,
              ![e].toast = IF reply.error # "" THEN Toast("edit", "error")
                           ELSE Toast("edit", "success"),
              ![e].record = IF reply.error # "" THEN @ ELSE NULL,
              ![e].records = IF reply.error # "" THEN @
                             ELSE {TeamRecord(r) : r \in
                                     {x \in reply.table : AttendanceSelectUsing(uid, x)}}]
        /\ UNCHANGED <<page, user_roles, settings, nextId, now, sess, response,
                       profiles, invitations, employee_id_seq, auth_users, auth>>

\* handleSubmit from the answer of the store on: the toast; on success the
\* dialog closes and onSuccess reloads the table
handleSubmitUpdate(e) ==
    LET uid == EditUser(e)
        request == Val(team[e].request)
        reply == UpdateAttendance(uid, request.id, request.patch)
    IN  /\ team[e].pc = "update"
        /\ attendance' = reply.table
        /\ team' = [team EXCEPT
              ![e].pc = "idle",
              ![e].loading = FALSE,
              ![e].request = NULL,
              ![e].toast = IF reply.error # "" THEN Toast("edit", "error")
                           ELSE Toast("edit", "success"),
              ![e].record = IF reply.error # "" THEN @ ELSE NULL,
              ![e].records = IF reply.error # "" THEN @
                             ELSE {TeamRecord(r) : r \in
                                     {x \in reply.table : AttendanceSelectUsing(uid, x)}}]
        /\ UNCHANGED <<page, user_roles, settings, nextId, now, sess, response,
                       profiles, invitations, employee_id_seq, auth_users, auth>>

\* two managers: the second employee holds the manager role as well
EditRoles == InitialRoles \cup {<<"u2", "manager">>}

InitEdit ==
    /\ user_roles = [p \in Identities \X app_role |-> IF p \in EditRoles THEN 1 ELSE 0]
    /\ attendance = {}
    /\ settings = Some(SeedThreshold)
    /\ nextId = 0
    /\ now = 33300
    /\ sess = [s \in Sessions |-> InitSession]
    /\ response = NoResponse
    /\ InitRegistry

\* the clock within one working day
TickToday ==
    /\ \E t \in Instants : t > now /\ DateOf(t) = DateOf(now) /\ now' = t
    /\ UNCHANGED <<registry, user_roles, attendance, settings, nextId, sess, response>>

NextEdit ==
    \/ TickToday
    \/ loadData("s1")
    \/ handleCheckInRpc("s1")
    \/ handleCheckInInsert("s1")
    \/ handleCheckOut("s1")
    \/ \E e \in EditSessions : loadTeamAttendance(e)
    \/ \E e \in EditSessions, record \in [id : 1..MaxRecords, status : attendance_status] :
          openEdit(e, record)
    \/ \E e \in EditSessions : closeEdit(e)
    \/ \E e \in EditSessions, status \in EditStatuses, reason \in EditReasons :
          handleSubmit(e, status, reason)
    \/ \E e \in EditSessions : handleSubmitUpdate(e)

SpecEdit == InitEdit /\ [][NextEdit]_vars

(***************************************************************************)
(* Invitations page (manager view)                                         *)
(***************************************************************************)
\* the addresses of the model; z.string().email() accepts them and refuses
\* a text without '@'
MailAddresses == {"u1", "u2", "m1", "ivy@corp", "v1@home", "v2@home"}

invitationSchema(form) ==
    /\ form.email \in MailAddresses
    /\ form.name # ""
    /\ form.department # ""
    /\ form.role \in app_role

\* what the form is submitted with: an invitation to each role, and a form
\* with no name
InvitationForms ==
    {[email |-> "ivy@corp", name |-> n, department |-> "Ops", role |-> r] :
        n \in {"Ivy"}, r \in app_role}
    \cup {[email |-> "ivy@corp", name |-> "", department |-> "Ops", role |-> "employee"]}

\* handleSubmit of the Invitations page
InvitationsHandleSubmit(uid, form) ==
    LET reply == InsertInvitation(uid,
                    [email |-> form.email, name |-> form.name,
                     department |-> form.department, role |-> form.role,
                     invited_by |-> uid])
    IN  /\ Cardinality(invitations) < MaxInvitations
        /\ IF invitationSchema(form)
           THEN invitations' = reply.table
           ELSE invitations' = invitations
        /\ UNCHANGED <<page, user_roles, attendance, settings, nextId, now, sess, response,
                       profiles, employee_id_seq, auth_users, auth, team>>

(***************************************************************************)
(* Auth page: the registration flow. A visitor opens it, with or without   *)
(* the ?invite= token of an invitation, in a browser that holds a session  *)
(* (client is the identity) or none (client is "").                        *)
(***************************************************************************)
\* the invitation is past its expiry: new Date(data.expires_at) < new Date()
\* an expiry test that never fires
Expired_Never(data, t) == FALSE
Expired(data, t) == data.expires_at < t

\* the page is opened: both effects are scheduled
openAuth(v, client, token) ==
    /\ ~auth[v].open
    /\ token = 0 \/ token = MaxInvitations + 1 \/ \E r \in invitations : r.token = token
    /\ auth' = [auth EXCEPT ![v] =
          [ClosedPage EXCEPT !.open = TRUE, !.client = client, !.token = token,
                             !.checkUser = TRUE, !.loadInvitation = (token # 0),
                             !.pc = "form"]]
    /\ UNCHANGED <<page, user_roles, attendance, settings, nextId, now, sess, response,
                   profiles, invitations, employee_id_seq, auth_users, team>>

\* checkUser: a browser with a session leaves the page for "/"
checkUser(v) ==
    /\ auth[v].open /\ auth[v].checkUser
    /\ auth[v].pc = "form"
    /\ auth' = [auth EXCEPT ![v] =
          IF auth[v].client # "" THEN ClosedPage ELSE [@ EXCEPT !.checkUser = FALSE]]
    /\ UNCHANGED <<page, user_roles, attendance, settings, nextId, now, sess, response,
                   profiles, invitations, employee_id_seq, auth_users, team>>

\* loadInvitation(token)
loadInvitation(v) ==
    LET found == SelectInvitation(auth[v].client, auth[v].token, "pending")
        data == CHOOSE r \in found : TRUE
    IN  /\ auth[v].open /\ auth[v].loadInvitation
        /\ auth' = [auth EXCEPT ![v] =
              IF found = {}
              THEN [@ EXCEPT !.loadInvitation = FALSE,
                             !.toast = Toast("invitation", "invalid")]
              ELSE IF Expired(data, now)
              THEN [@ EXCEPT !.loadInvitation = FALSE,
                             !.toast = Toast("invitation", "expired")]
              ELSE [@ EXCEPT !.loadInvitation = FALSE,
                             !.invitationData =
                                Some([email |-> data.email, name |-> data.name,
                                      department |-> data.department,
                                      role |-> data.role, token |-> data.token]),
                             !.toast = Toast("invitation", "info")]]
        /\ UNCHANGED <<page, user_roles, attendance, settings, nextId, now, sess, response,
                       profiles, invitations, employee_id_seq, auth_users, team>>

\* what the sign-up form is submitted with: the Role select offers employee
\* and manager
SignUpForms ==
    [name : {"Val"}, email : {"v1@home", "v2@home"}, department : {"Lab"},
     role : {"employee", "manager"}]

\* the fields handleSignUp sends: the invitation's where the page holds one
SignUpFields(invitationData, form) ==
    IF invitationData # NULL
    THEN [name |-> Val(invitationData).name, email |-> Val(invitationData).email,
          department |-> Val(invitationData).department,
          role |-> Val(invitationData).role]
    ELSE [name |-> form.name, email |-> form.email,
          department |-> form.department, role |-> form.role]

\* the sequence has handed out a value to each of the three identities, or
\* values up to 9998: the other values went to registrations that failed
InitialSequence == {3, 9998}

\* the sequence of the model hands out MaxSignUps values
SequenceLeft == \A first \in InitialSequence : employee_id_seq # first + MaxSignUps

\* supabase.auth.signUp: the insert into auth.users, which fires
\* handle_new_user; an address that is registered is refused
signUp(email, data) ==
    LET new == [id |-> NewIds[Len(auth_users) - Len(InitialAuthUsers) + 1],
                email |-> email, raw_user_meta_data |-> data]
        done == handle_new_user(new)
    IN  IF \E r \in profiles : r.email = email
        THEN [error |-> "user_already_exists", user |-> NULL,
              profiles |-> profiles, user_roles |-> user_roles,
              employee_id_seq |-> employee_id_seq, auth_users |-> auth_users]
        ELSE IF done.error # ""
        THEN [error |-> "database_error", user |-> NULL,
              profiles |-> profiles, user_roles |-> user_roles,
              employee_id_seq |-> done.employee_id_seq, auth_users |-> auth_users]
        ELSE [error |-> "", user |-> Some(new.id),
              profiles |-> done.profiles, user_roles |-> done.user_roles,
              employee_id_seq |-> done.employee_id_seq,
              auth_users |-> Append(auth_users, new.id)]

\* the tables as signUp leaves them
SignedUp(done) ==
    /\ profiles' = done.profiles
    /\ user_roles' = done.user_roles
    /\ employee_id_seq' = done.employee_id_seq
    /\ auth_users' = done.auth_users

\* handleSignUp up to the answer of signUp. Whether signUp opens a session
\* for the new identity is a setting of the auth service (confirmation of
\* the address): with session the browser acts as the new identity from
\* then on, otherwise as before. Without an invitation the handler ends
\* here and the page navigates to "/".
handleSignUp(v, form, session) ==
    LET fields == SignUpFields(auth[v].invitationData, form)
        done == signUp(fields.email,
                       [name |-> fields.name, department |-> fields.department,
                        role |-> fields.role])
    IN  /\ auth[v].open /\ auth[v].pc = "form"
        /\ SequenceLeft
        /\ SignedUp(done)
        /\ auth' = [auth EXCEPT ![v] =
              IF done.error # ""
              THEN [@ EXCEPT !.toast = Toast("signUp", "error")]
              ELSE IF auth[v].invitationData # NULL
              THEN [@ EXCEPT !.pc = "accept", !.user = Val(done.user),
                             !.client = IF session THEN Val(done.user) ELSE @]
              ELSE ClosedPage]
        /\ UNCHANGED <<page, attendance, settings, nextId, now, sess, response, invitations, team>>

\* handleSignUp, registration from an invitation: the invitation is set to
\* 'accepted'; the answer is not looked at
handleSignUpAccept(v) ==
    LET token == Val(auth[v].invitationData).token
        reply == UpdateInvitationStatus(auth[v].client, token, "accepted")
    IN  /\ auth[v].open /\ auth[v].pc = "accept"
        /\ invitations' = reply.table
        /\ auth' = [auth EXCEPT ![v].pc = "grant"]
        /\ UNCHANGED <<page, user_roles, attendance, settings, nextId, now, sess, response,
                       profiles, employee_id_seq, auth_users, team>>

\* handleSignUp, registration from an invitation: the role of the invitation
\* is inserted for the new identity; the answer is not looked at. The page
\* navigates to "/".
handleSignUpGrant(v) ==
    LET row == [user_id |-> auth[v].user, role |-> Val(auth[v].invitationData).role]
        reply == InsertUserRole(auth[v].client, row)
    IN  /\ auth[v].open /\ auth[v].pc = "grant"
        /\ user_roles' = reply.table
        /\ auth' = [auth EXCEPT ![v] = ClosedPage]
        /\ UNCHANGED <<page, attendance, settings, nextId, now, sess, response,
                       profiles, invitations, employee_id_seq, auth_users, team>>

\* supabase.auth.signUp called directly, with user metadata of the caller's
\* choice
MetaInputs == {[role |-> "admin"], [name |-> "Nobody"]}

ApiSignUp(email, data) ==
    LET done == signUp(email, data)
    IN  /\ SequenceLeft
        /\ SignedUp(done)
        /\ UNCHANGED <<page, attendance, settings, nextId, now, sess, response,
                       invitations, auth, team>>

\* the clock around the expiry of an invitation sent at the first instant
InvitationInstants ==
    {33300, 33300 + InvitationLifetime, 33300 + InvitationLifetime + 1}

TickInvitation ==
    /\ \E t \in InvitationInstants : t > now /\ now' = t
    /\ UNCHANGED <<registry, user_roles, attendance, settings, nextId, sess, response>>

InitReg ==
    /\ user_roles = [p \in Identities \X app_role |-> IF p \in InitialRoles THEN 1 ELSE 0]
    /\ attendance = {}
    /\ settings = Some(SeedThreshold)
    /\ nextId = 0
    /\ now = 33300
    /\ sess = [s \in Sessions |-> InitSession]
    /\ response = NoResponse
    /\ profiles = {InitialProfile(n) : n \in 1..3}
    /\ invitations = {}
    /\ employee_id_seq \in InitialSequence
    /\ auth_users = InitialAuthUsers
    /\ auth = [v \in Visitors |-> ClosedPage]
    /\ team = [e \in EditSessions |-> InitTeam]
    /\ page = ClosedSettings

NextReg ==
    \/ TickInvitation
    \/ \E uid \in {"u1", "m1"}, form \in InvitationForms : InvitationsHandleSubmit(uid, form)
    \/ \E v \in Visitors, client \in {"", "m1"}, token \in 0..(MaxInvitations + 1) :
          openAuth(v, client, token)
    \/ \E v \in Visitors : checkUser(v)
    \/ \E v \in Visitors : loadInvitation(v)
    \/ \E v \in Visitors, form \in SignUpForms, session \in BOOLEAN :
          handleSignUp(v, form, session)
    \/ \E v \in Visitors : handleSignUpAccept(v)
    \/ \E v \in Visitors : handleSignUpGrant(v)
    \/ \E data \in MetaInputs : ApiSignUp("v1@home", data)

SpecReg == InitReg /\ [][NextReg]_vars

(***************************************************************************)
(* Profile page (src/src/pages/Profile.tsx) and the profiles table as the  *)
(* row policies leave it open to a signed-in client.                       *)
(***************************************************************************)

\* the name and department fields of the page, as typed by the user
ProfileNames == {"Ann"}
ProfileDepartments == {"General", "Ops"}

\* Profile.handleUpdate: update({ name, department }).eq("id", user.id)
handleUpdate(uid, name, department) ==
    LET reply == UpdateProfile(uid, uid, [name |-> name, department |-> department])
    IN  /\ profiles' = reply.table
        /\ response' = Answer("handleUpdate", uid, 0, reply, {})
        /\ UNCHANGED <<invitations, employee_id_seq, auth_users, auth, team>>
        /\ UNCHANGED <<page, user_roles, attendance, settings, nextId, now, sess>>

\* column values a signed-in client may send in its own UPDATE of profiles
ProfilePatches ==
    {[employee_id |-> EmployeeId(7)], [employee_id |-> EmployeeId(1)],
     [role |-> "manager"], [email |-> "other"]}

\* UPDATE profiles SET ... WHERE id = ..., sent by a signed-in client; the
\* only policy is "Users can update their own profile", which names no column
ApiUpdateProfile(uid, id, patch) ==
    LET reply == UpdateProfile(uid, id, patch)
    IN  /\ profiles' = reply.table
        /\ response' = Answer("update_profile", uid, 0, reply, {})
        /\ UNCHANGED <<invitations, employee_id_seq, auth_users, auth, team>>
        /\ UNCHANGED <<page, user_roles, attendance, settings, nextId, now, sess>>

NextProfile ==
    \/ \E uid \in {"u1", "u2"}, name \in ProfileNames, department \in ProfileDepartments :
          handleUpdate(uid, name, department)
    \/ \E uid \in {"u2", "m1"}, id \in {"u2"}, patch \in ProfilePatches :
          ApiUpdateProfile(uid, id, patch)

SpecProfile == Init /\ [][NextProfile]_vars

(***************************************************************************)
(* Settings page with what it keeps: the form, and the toast of the last   *)
(* save.                                                                   *)
(***************************************************************************)
\* what can be typed into the number inputs: parseInt(e.target.value) || 0
FormHours == {-1, 0, 9, 23, 24}
FormMinutes == {0, 15, 59, 60}

\* the page is mounted with the form at 9:15 and loadSettings puts the stored
\* value, if it gets one, into the form
loadSettings(uid) ==
    /\ page' = [user |-> uid,
                lateThreshold |-> IF SelectSettings(uid) # NULL
                                  THEN Val(SelectSettings(uid))
                                  ELSE [hours |-> 9, minutes |-> 15],
                toast |-> NoToast]
    /\ UNCHANGED <<profiles, invitations, employee_id_seq, auth_users, auth, team>>
    /\ UNCHANGED <<user_roles, attendance, settings, nextId, now, sess, response>>

\* onChange of the hours input
setHours(hours) ==
    /\ page.user # ""
    /\ page' = [page EXCEPT !.lateThreshold.hours = hours]
    /\ UNCHANGED <<profiles, invitations, employee_id_seq, auth_users, auth, team>>
    /\ UNCHANGED <<user_roles, attendance, settings, nextId, now, sess, response>>

\* onChange of the minutes input
setMinutes(minutes) ==
    /\ page.user # ""
    /\ page' = [page EXCEPT !.lateThreshold.minutes = minutes]
    /\ UNCHANGED <<profiles, invitations, employee_id_seq, auth_users, auth, team>>
    /\ UNCHANGED <<user_roles, attendance, settings, nextId, now, sess, response>>

\* handleSave of the page: timeSchema.parse(lateThreshold), the update, the toast
SettingsHandleSave ==
    LET reply == UpdateSettings(page.user, page.lateThreshold)
    IN  /\ page.user # ""
        /\ IF timeSchema(page.lateThreshold)
           THEN /\ settings' = reply.table
                /\ page' = [page EXCEPT !.toast = IF reply.error # ""
                                                  THEN Toast("save", "error")
                                                  ELSE Toast("save", "success")]
           ELSE /\ settings' = settings
                /\ page' = [page EXCEPT !.toast = Toast("save", "invalid")]
        /\ UNCHANGED <<profiles, invitations, employee_id_seq, auth_users, auth, team>>
        /\ UNCHANGED <<user_roles, attendance, nextId, now, sess, response>>

NextSettings ==
    \/ \E uid \in SaveUsers : loadSettings(uid)
    \/ \E hours \in FormHours : setHours(hours)
    \/ \E minutes \in FormMinutes : setMinutes(minutes)
    \/ SettingsHandleSave

SpecSettings == Init /\ [][NextSettings]_vars

(***************************************************************************)
(* The Dashboard over several days: a page left open is used again when    *)
(* the elapsed time reaches the limit of total_hours DECIMAL(4,2).         *)
(***************************************************************************)
\* the least elapsed time, in seconds, whose hours round to 100.00
OverflowSeconds == (DecimalLimit * SecondsPerHour - SecondsPerHour \div 2) \div 100

\* 09:15:00 of the first day, and the instants around 100 hours later
LongInstants == {33300, 33300 + OverflowSeconds - 1, 33300 + OverflowSeconds}

TickLong ==
    /\ \E t \in LongInstants : t > now /\ now' = t
    /\ UNCHANGED <<registry, user_roles, attendance, settings, nextId, sess, response>>

NextLong ==
    \/ TickLong
    \/ \E s \in Sessions : loadData(s)
    \/ \E s \in Sessions : handleCheckInRpc(s)
    \/ \E s \in Sessions : handleCheckInInsert(s)
    \/ \E s \in Sessions : handleCheckOut(s)

SpecLong == Init /\ [][NextLong]_vars

(***************************************************************************)
(* Claims                                                                  *)
(***************************************************************************)

\* C1: is_late_check_in answers true exactly when the time of day of the
\* check-in is strictly after threshold hours:minutes:00 (09:15:00 when no
\* threshold is stored), and the record the check-in creates is 'late' when
\* it answers true and 'present' otherwise.
C1_LateIffStrictlyAfterThreshold ==
    /\ \A s \in Sessions :
          sess[s].pc = "insert" =>
              (sess[s].isLate <=> SecondOfDay(sess[s].ckNow) > ThresholdSeconds)
    /\ \A r \in attendance :
          r.status = IF SecondOfDay(Val(r.check_in_time)) > ThresholdSeconds
                     THEN "late" ELSE "present"

\* a check-in exactly at a stored threshold other than the seed: 'present'
C1_Witness ==
    \E r \in attendance :
        /\ settings # NULL /\ Val(settings) # SeedThreshold
        /\ SecondOfDay(Val(r.check_in_time)) = ThresholdSeconds
        /\ r.status = "present"

\* C2 as stated: a record with check-in and check-out has total_hours equal
\* to (check_out - check_in) in hours, a record with no check-out has no
\* total_hours.
C2_TotalHoursExact ==
    \A r \in attendance :
        /\ (r.check_in_time # NULL /\ r.check_out_time # NULL) =>
              /\ r.total_hours # NULL
              /\ Val(r.total_hours) * 3600
                   = 100 * (Val(r.check_out_time) - Val(r.check_in_time))
        /\ r.check_out_time = NULL => r.total_hours = NULL

\* C2 amended: in every state the check-in and check-out handlers reach, a
\* record with check-in and check-out has total_hours equal to
\* (check_out - check_in) in hours rounded to two decimals (within half a
\* hundredth of an hour), and a record with no check-out has no total_hours.
C2_TotalHoursRounded ==
    \A r \in attendance :
        /\ (r.check_in_time # NULL /\ r.check_out_time # NULL) =>
              /\ r.total_hours # NULL
              /\ LET exact == 100 * (Val(r.check_out_time) - Val(r.check_in_time))
                     stored == Val(r.total_hours) * 3600
                 IN  stored - exact <= 1800 /\ exact - stored <= 1800
        /\ r.check_out_time = NULL => r.total_hours = NULL

\* a record checked out 8 h 00 min 10 s after its check-in holds 8.00, next
\* to a record that is not checked out
C2_Witness ==
    /\ \E r \in attendance :
          /\ r.check_in_time # NULL /\ r.check_out_time # NULL
          /\ Val(r.check_out_time) - Val(r.check_in_time) = 28810
          /\ r.total_hours = Some(800)
    /\ \E r \in attendance : r.check_out_time = NULL /\ r.total_hours = NULL

\* C3: a check-in for a (user, date) that has a record is answered with an
\* error and leaves the ledger as it was.
C3_SecondCheckInRejected ==
    [][\A s \in Sessions :
          ( /\ sess[s].pc = "insert"
            /\ sess'[s].pc = "idle"
            /\ \E r \in attendance :
                  r.user_id = SessionUser(s) /\ r.date = sess[s].ckToday )
          => ( /\ attendance' = attendance
               /\ sess'[s].toast = Toast("checkin", "error") )]_vars

\* a session was refused a check-in for a date whose record is checked out
C3_Witness ==
    \E s \in Sessions :
        /\ sess[s].pc = "idle"
        /\ sess[s].toast = Toast("checkin", "error")
        /\ \E r \in attendance :
              /\ r.user_id = SessionUser(s) /\ r.date = sess[s].ckToday
              /\ r.check_out_time # NULL

\* C4: when two sessions of a user have both run a check-in for the same
\* date, exactly one of them was answered with an error; and the ledger never
\* holds two records of one (user, date).
C4_OneCheckInWins ==
    /\ \A r1, r2 \in attendance :
          (r1.user_id = r2.user_id /\ r1.date = r2.date) => r1 = r2
    /\ \A s, t \in Sessions :
          ( /\ s # t /\ SessionUser(s) = SessionUser(t)
            /\ sess[s].pc = "idle" /\ sess[t].pc = "idle"
            /\ sess[s].toast.op = "checkin" /\ sess[t].toast.op = "checkin"
            /\ sess[s].ckToday = sess[t].ckToday )
          => ( (sess[s].toast.kind = "error") # (sess[t].toast.kind = "error") )

\* both sessions ran a check-in for one date: one got through, one was refused
C4_Witness ==
    \E s, t \in Sessions :
        /\ s # t /\ SessionUser(s) = SessionUser(t)
        /\ sess[s].pc = "idle" /\ sess[t].pc = "idle"
        /\ sess[s].toast.op = "checkin" /\ sess[t].toast = Toast("checkin", "error")
        /\ sess[s].toast.kind # "error"
        /\ sess[s].ckToday = sess[t].ckToday

\* C5 as stated: an identity holding neither the manager nor the admin role
\* that asks to insert a role or to delete an attendance record is answered
\* with an authorization error, and role store and ledger stay as they were.
C5_DeniedWithError ==
    [][ ( /\ \/ response'.op = "insert_user_role"
             \/ /\ response'.op = "delete_attendance"
                /\ \E r \in attendance : r.id = response'.key
          /\ ~IsPrivileged(response'.uid) )
        => ( /\ response'.error = "rls_violation"
             /\ user_roles' = user_roles /\ attendance' = attendance ) ]_vars

\* C5 amended: an identity holding neither the manager nor the admin role
\* cannot insert a role and cannot delete an attendance record: the insert is
\* answered with an authorization error; the delete is answered without
\* error and with no row deleted; both leave role store and ledger as they were.
C5_DeniedWithoutEffect ==
    [][ /\ (response'.op = "insert_user_role" /\ ~IsPrivileged(response'.uid))
           => ( /\ response'.error = "rls_violation"
                /\ user_roles' = user_roles /\ attendance' = attendance )
        /\ ( /\ response'.op = "delete_attendance" /\ ~IsPrivileged(response'.uid)
             /\ \E r \in attendance : r.id = response'.key )
           => ( /\ response'.error = "" /\ response'.rows = 0
                /\ user_roles' = user_roles /\ attendance' = attendance ) ]_vars

\* an employee asked to delete their own record: it is still there
C5_Witness ==
    /\ response.op = "delete_attendance"
    /\ ~IsPrivileged(response.uid)
    /\ response.rows = 0
    /\ \E r \in attendance : r.id = response.key /\ r.user_id = response.uid

\* C6: a read of the ledger returns a record exactly when the reader owns it
\* or holds the manager or admin role; what an identity without those roles
\* reads is its own records, whatever records others have.
C6_ReadOwnOrPrivileged ==
    response.op = "select_attendance" =>
        LET uid == response.uid
            privileged == user_roles[<<uid, "manager">>] > 0
                          \/ user_roles[<<uid, "admin">>] > 0
        IN  /\ response.data =
                  {r \in attendance : r.user_id = uid \/ privileged}
            /\ ~privileged => response.data = {r \in attendance : r.user_id = uid}

\* an employee read its own record and not the record another user has
C6_Witness ==
    /\ response.op = "select_attendance"
    /\ user_roles[<<response.uid, "manager">>] = 0
    /\ user_roles[<<response.uid, "admin">>] = 0
    /\ \E r \in attendance : r.user_id = response.uid /\ r \in response.data
    /\ \E r \in attendance : r.user_id # response.uid /\ r \notin response.data

\* C7: an insert of an attendance record adds at most a record of the
\* inserting identity; an insert for another user, by a manager or admin
\* too, is answered with an authorization error and leaves the ledger as it
\* was.
C7_InsertOnlyAsSelf ==
    [][ response'.op = "insert_attendance"
        => ( /\ \A r \in attendance' : r \notin attendance => r.user_id = response'.uid
             /\ response'.uid # response'.key
                => ( /\ attendance' = attendance
                     /\ response'.error = "rls_violation" ) ) ]_vars

\* a manager asked to insert a record for an employee who has none
C7_Witness ==
    /\ response.op = "insert_attendance"
    /\ user_roles[<<response.uid, "manager">>] > 0
    /\ response.key # response.uid
    /\ response.error = "rls_violation"
    /\ \A r \in attendance : r.user_id # response.key

\* C8: an update of an existing attendance record takes effect (the row
\* holds the values sent) exactly when the updating identity owns the record
\* or holds the manager or admin role; otherwise no field of any record
\* changes.
C8_UpdateOwnOrPrivileged ==
    [][ response'.op = "update_attendance"
        => LET uid == response'.uid
               id == response'.key.id
               patch == response'.key.patch
           IN  \A r \in attendance :
                 r.id = id
                 => IF r.user_id = uid \/ user_roles[<<uid, "manager">>] > 0
                                       \/ user_roles[<<uid, "admin">>] > 0
                    THEN /\ response'.rows = 1
                         /\ \E n \in attendance' :
                               /\ n.id = id
                               /\ \A f \in DOMAIN patch : n[f] = patch[f]
                               /\ attendance' \ {n} = attendance \ {r}
                    ELSE attendance' = attendance /\ response'.rows = 0 ]_vars

\* an employee asked to update another employee's record: nothing changed;
\* and that record has been checked out by its owner
C8_Witness ==
    /\ response.op = "update_attendance"
    /\ ~IsPrivileged(response.uid)
    /\ response.rows = 0
    /\ \E r \in attendance :
          /\ r.id = response.key.id /\ r.user_id # response.uid
          /\ r.check_out_time # NULL /\ r.status = "present"

\* C9: every identity reads the stored late threshold; the stored threshold
\* changes only in a write by an identity holding the manager or admin role,
\* and then to the value that write carries.
C9_ThresholdReadByAllWrittenByPrivileged ==
    [][ /\ \A uid \in Users :
              (response'.op = "select_settings" /\ response'.uid = uid)
              => response'.error = "" /\ response'.data = {settings'}
        /\ settings' # settings =>
              /\ response'.op \in {"update_settings", "insert_settings", "delete_settings"}
              /\ user_roles[<<response'.uid, "manager">>] > 0
                 \/ user_roles[<<response'.uid, "admin">>] > 0
              /\ response'.op = "delete_settings" => settings' = NULL
              /\ response'.op # "delete_settings" => settings' = Some(response'.key) ]_vars

\* an employee asked for another threshold than the stored one, which a
\* manager or admin had written: nothing changed
C9_Witness ==
    /\ response.op = "update_settings"
    /\ ~IsPrivileged(response.uid)
    /\ settings # NULL
    /\ Val(settings) # response.key
    /\ Val(settings) # SeedThreshold

\* C10: role grants are append-only. No request of an authenticated identity
\* removes or changes a (user, role) pair; a pair is added only by an insert
\* of an identity holding the manager or admin role; no pair exists twice.
C10_RolesAppendOnly ==
    /\ [](\A p \in Users \X app_role : user_roles[p] <= 1)
    /\ [][ /\ \A p \in Users \X app_role : user_roles'[p] >= user_roles[p]
           /\ user_roles' # user_roles =>
                 /\ response'.op = "insert_user_role"
                 /\ user_roles[<<response'.uid, "manager">>] > 0
                    \/ user_roles[<<response'.uid, "admin">>] > 0 ]_vars

\* an admin asked to delete a role grant and a pair was granted before: both
\* pairs are still there
C10_Witness ==
    /\ response.op = "delete_user_role"
    /\ has_role(response.uid, "admin")
    /\ response.rows = 0
    /\ user_roles[<<response.key.user_id, response.key.role>>] = 1
    /\ \E p \in Users \X app_role : user_roles[p] = 1 /\ p \notin InitialRoles

\* C11 as stated: a privileged edit that changes a record's status from s to
\* a different status t stores status t, original_status = s, the editor as
\* modifier, the modification instant and a non-empty reason; a privileged
\* edit that keeps the status stores no original_status.
C11_EditStoresPriorStatus ==
    [][\A e \in EditSessions :
          ( /\ team[e].pc = "update" /\ team'[e].pc = "idle"
            /\ IsPrivileged(EditUser(e)) )
          => LET request == Val(team[e].request)
             IN  \A r \in attendance :
                   r.id = request.id
                   => \E n \in attendance' :
                        /\ n.id = r.id
                        /\ n.status = request.patch.status
                        /\ n.modified_by = Some(EditUser(e))
                        /\ n.modified_at = request.patch.modified_at
                        /\ n.modification_reason # NULL
                        /\ Len(Val(n.modification_reason)) > 0
                        /\ n.original_status =
                              IF r.status # n.status THEN Some(r.status) ELSE NULL ]_vars

\* C19: a check-out changes the check-out time and the total hours of the
\* record and nothing else: status, check-in time, original_status,
\* modifier, modification instant and reason of every record stay as they
\* were, and no record is added or removed.
C19_CheckOutChangesOnlyCheckOut ==
    [][\A s \in Sessions :
          handleCheckOut(s)
          => /\ Cardinality(attendance') = Cardinality(attendance)
             /\ \A r \in attendance :
                   \E n \in attendance' :
                      /\ n.id = r.id
                      /\ \A f \in DOMAIN r \ {"check_out_time", "total_hours"} :
                            n[f] = r[f]
                      /\ n.check_out_time # r.check_out_time
                            => n.check_out_time = Some(now) ]_vars

\* a record a manager had set to 'absent' was checked out afterwards: it is
\* still 'absent', with its audit fields, and holds its total hours
C19_Witness ==
    \E r \in attendance :
        /\ sess["s1"].toast = Toast("checkout", "success")
        /\ r.check_out_time # NULL /\ r.total_hours # NULL
        /\ r.status = "absent" /\ r.original_status = Some("present")
        /\ r.modified_by = Some("m1") /\ r.modification_reason # NULL
        /\ r.modified_at # NULL
        /\ Val(r.modified_at) < Val(r.check_out_time)

\* C20: an edit whose reason, trimmed, has fewer than 3 or more than 500
\* characters, or whose status is not one of present, absent, late,
\* half-day, ends without a request to the store: the ledger is unchanged,
\* the dialog is not loading and no update is pending; and no record ever
\* holds a reason or a status the dialog refuses.
C20_InvalidEditRejected ==
    /\ [](\A r \in attendance :
             /\ r.status \in {"present", "absent", "late", "half-day"}
             /\ r.modification_reason # NULL
                => /\ Len(Val(r.modification_reason)) >= 3
                   /\ Len(Val(r.modification_reason)) <= 500
                   /\ Val(r.modification_reason) = Trim(Val(r.modification_reason)))
    /\ [][\A e \in EditSessions, status \in EditStatuses, reason \in EditReasons :
             ( /\ handleSubmit(e, status, reason)
               /\ \/ Len(Trim(reason)) < 3
                  \/ Len(Trim(reason)) > 500
                  \/ status \notin {"present", "absent", "late", "half-day"} )
             => /\ attendance' = attendance
                /\ team'[e].loading = FALSE
                /\ team'[e].pc = "idle"
                /\ team'[e].request = NULL
                /\ team'[e].toast = Toast("edit", "error") ]_vars

\* a manager's dialog on a record shows the error of a refused form; the
\* record carries no trace of an edit
C20_Witness ==
    \E e \in EditSessions :
        /\ team[e].toast = Toast("edit", "error")
        /\ team[e].pc = "idle" /\ ~team[e].loading
        /\ team[e].record # NULL
        /\ \E r \in attendance :
              r.id = Val(team[e].record).id /\ r.modified_by = NULL

\* C12: the registration form is pre-filled only from an invitation that is
\* pending and whose expiry instant is not before the instant of the
\* lookup; and no invitation ever has status 'expired'.
C12_ExpiredNeverPrefills ==
    /\ [](\A r \in invitations : r.status # "expired")
    /\ [][\A v \in Visitors :
             (auth'[v].invitationData # NULL /\ auth'[v].invitationData # auth[v].invitationData)
             => \E r \in invitations :
                   /\ r.token = auth[v].token
                   /\ r.status = "pending"
                   /\ r.expires_at >= now
                   /\ Val(auth'[v].invitationData).token = r.token
                   /\ Val(auth'[v].invitationData).role = r.role ]_vars

\* the lookup found a pending invitation past its expiry and refused it: the
\* form is not pre-filled and the invitation is still 'pending'
C12_Witness ==
    \E v \in Visitors :
        /\ auth[v].open
        /\ auth[v].toast = Toast("invitation", "expired")
        /\ auth[v].invitationData = NULL
        /\ \E r \in invitations :
              r.token = auth[v].token /\ r.status = "pending" /\ r.expires_at < now

\* C13 as stated: a visitor who holds no role and opens the registration
\* flow with the token of a pending, unexpired invitation finds the
\* invitation: the form is pre-filled with its email, name, department and
\* role.
C13_VisitorFindsInvitation ==
    [][\A v \in Visitors :
          ( /\ loadInvitation(v)
            /\ \A role \in app_role : ~has_role(auth[v].client, role) )
          => \A r \in invitations :
                (r.token = auth[v].token /\ r.status = "pending" /\ r.expires_at >= now)
                => auth'[v].invitationData =
                      Some([email |-> r.email, name |-> r.name,
                            department |-> r.department, role |-> r.role,
                            token |-> r.token]) ]_vars

\* C14 as stated: a registration submitted from the flow opened with the
\* token of an invitation that is pending and unexpired succeeds and gives
\* the new identity the role of the invitation, whichever of employee,
\* manager, admin it is; and when the flow ends the invitation is
\* 'accepted'.
C14_InvitedRegistrationAccepted ==
    [][\A v \in Visitors :
          \A r \in invitations :
             (r.token = auth[v].token /\ r.status = "pending" /\ r.expires_at >= now)
             => /\ (\E form \in SignUpForms, session \in BOOLEAN :
                       handleSignUp(v, form, session))
                   => /\ Len(auth_users') = Len(auth_users) + 1
                      /\ user_roles'[<<auth_users'[Len(auth_users')], r.role>>] > 0
                /\ ( /\ auth[v].open /\ ~auth'[v].open
                     /\ \/ handleSignUpGrant(v)
                        \/ \E form \in SignUpForms, session \in BOOLEAN :
                              handleSignUp(v, form, session) )
                   => \E n \in invitations' : n.id = r.id /\ n.status = "accepted" ]_vars

\* C15 as stated: a registration submitted from a flow that has no token,
\* or a token that names no invitation that is pending and unexpired, stores
\* the name, email and department of the form and grants the new identity
\* the role 'employee' and no other, whatever the form holds.
C15_UnboundRegistrationIsEmployee ==
    [][\A v \in Visitors, form \in SignUpForms, session \in BOOLEAN :
          ( /\ handleSignUp(v, form, session)
            /\ Len(auth_users') = Len(auth_users) + 1
            /\ ~\E r \in invitations :
                  r.token = auth[v].token /\ r.status = "pending" /\ r.expires_at >= now )
          => LET id == auth_users'[Len(auth_users')]
             IN  /\ \E p \in profiles' :
                       /\ p.id = id /\ p.name = form.name
                       /\ p.email = form.email /\ p.department = form.department
                 /\ \A role \in app_role :
                       user_roles'[<<id, role>>] = IF role = "employee" THEN 1 ELSE 0 ]_vars

\* C16 as stated: when a registration from the flow opened with the token of
\* an invitation has succeeded and the flow has ended, the invitation of that
\* token is no longer 'pending': no later lookup of the token finds it.
C16_TokenSingleUse ==
    [][\A v \in Visitors :
          /\ handleSignUpGrant(v)
             => \A n \in invitations' :
                   n.token = Val(auth[v].invitationData).token => n.status # "pending"
          /\ ( /\ \E form \in SignUpForms, session \in BOOLEAN :
                     handleSignUp(v, form, session)
               /\ Len(auth_users') = Len(auth_users) + 1
               /\ ~auth'[v].open )
             => \A r \in invitations :
                   (r.token = auth[v].token /\ r.status = "pending" /\ r.expires_at >= now)
                   => \A n \in invitations' : n.id = r.id => n.status # "pending" ]_vars

\* C17 as stated: the n-th identity registered has exactly one profile and
\* one role grant, its employee code is 'EMP' followed by n, zero-padded to
\* four digits, and no two profiles share a code.
C17_SequentialEmployeeCodes ==
    /\ \A n \in 1..Len(auth_users) :
          LET id == auth_users[n]
              digits == ToText(n)
              zeros == IF Len(digits) < 4 THEN 4 - Len(digits) ELSE 0
          IN  /\ Cardinality({p \in profiles : p.id = id}) = 1
              /\ \A p \in profiles :
                    p.id = id
                    => p.employee_id = <<"E", "M", "P">> \o [j \in 1..zeros |-> "0"] \o digits
              /\ Cardinality({role \in app_role : user_roles[<<id, role>>] > 0}) = 1
              /\ \A role \in app_role : user_roles[<<id, role>>] <= 1
    /\ \A p, q \in profiles : p.employee_id = q.employee_id => p = q

\* C18 as stated: after any sequence of updates of a profile by its owner,
\* the profile's employee code, email and primary role are the values
\* assigned at registration.
C18_EmployeeCodeImmutable ==
    \A n \in 1..3 :
        \A p \in profiles :
            p.id = InitialProfile(n).id
            => /\ p.employee_id = InitialProfile(n).employee_id
               /\ p.email = InitialProfile(n).email
               /\ p.role = InitialProfile(n).role

\* C21: after any sequence of saves on the Settings page the stored late
\* threshold has hours in 0..23 and minutes in 0..59; a save of a form
\* outside these ranges is answered with the error toast and leaves the
\* stored threshold as it was.
C21_StoredThresholdInRange ==
    /\ [](settings # NULL => /\ Val(settings).hours \in 0..23
                             /\ Val(settings).minutes \in 0..59)
    /\ [][(SettingsHandleSave /\ ~(/\ page.lateThreshold.hours \in 0..23
                                   /\ page.lateThreshold.minutes \in 0..59))
          => /\ settings' = settings
             /\ page'.toast = Toast("save", "invalid")]_vars

\* a manager has replaced the seeded threshold and has then saved an
\* out-of-range form, which was refused
C21_Witness ==
    /\ settings # NULL
    /\ Val(settings) # SeedThreshold
    /\ IsPrivileged(page.user)
    /\ page.toast = Toast("save", "invalid")
    /\ page.lateThreshold.hours > 23 \/ page.lateThreshold.minutes > 59
       \/ page.lateThreshold.hours < 0

\* C22: when the update of a privileged edit is applied, the record holds
\* status, original_status, modifier, modification instant and reason exactly
\* as that edit sent them, whatever another edit of the same record wrote
\* while this one was on its way: the last write wins whole.
C22_LastWriteWinsWhole ==
    [][\A e \in EditSessions :
          (team[e].pc = "update" /\ team'[e].pc = "idle")
          => LET request == Val(team[e].request)
             IN  \A n \in attendance' :
                   n.id = request.id
                   => /\ n.status = request.patch.status
                      /\ n.original_status = request.patch.original_status
                      /\ n.modified_by = request.patch.modified_by
                      /\ n.modified_at = request.patch.modified_at
                      /\ n.modification_reason = request.patch.modification_reason ]_vars

\* two edits of one record overlap: while the update of one manager is on
\* its way, the record already holds the different edit the other manager
\* submitted no earlier
C22_Witness ==
    \E e \in EditSessions :
        /\ team[e].pc = "update"
        /\ \E r \in attendance :
              /\ r.id = Val(team[e].request).id
              /\ r.modified_by # NULL
              /\ Val(r.modified_by) # EditUser(e)
              /\ Val(r.modified_at) >= Val(Val(team[e].request).patch.modified_at)
              /\ r.status # Val(team[e].request).patch.status

\* C23 as stated: every change of the status of a record carries an audit
\* trail: the record then names a modifier who holds the manager or admin
\* role, a modification instant and a reason of at least 3 characters; so
\* the owner of a record who holds neither role cannot change its status.
C23_StatusChangeAudited ==
    [][\A r \in attendance :
          \A n \in attendance' :
             (n.id = r.id /\ n.status # r.status)
             => /\ n.modified_by # NULL
                /\ \/ user_roles'[<<Val(n.modified_by), "manager">>] > 0
                   \/ user_roles'[<<Val(n.modified_by), "admin">>] > 0
                /\ n.modified_at # NULL
                /\ n.modification_reason # NULL
                /\ Len(Val(n.modification_reason)) >= 3 ]_vars

\* C24 as stated: the record a check-in inserts is 'late' exactly when its
\* check-in time of day is strictly after the threshold stored at the moment
\* of the insert, however the lookup and the insert of the check-in
\* interleave with a save of the threshold.
C24_StatusAgreesWithThresholdAtInsert ==
    [][\A s \in Sessions :
          handleCheckInInsert(s)
          => \A n \in attendance' \ attendance :
                (n.status = "late")
                <=> SecondOfDay(Val(n.check_in_time)) > ThresholdSeconds ]_vars

C26_AuditNeverLost ==
    /\ [](\A r \in attendance :
             r.status # (IF SecondOfDay(Val(r.check_in_time)) > ThresholdSeconds
                         THEN "late" ELSE "present")
             => r.original_status # NULL)
    /\ [][\A e \in EditSessions :
             (team[e].pc = "update" /\ team'[e].pc = "idle")
             => \A r \in attendance :
                   \A n \in attendance' :
                      (n.id = r.id /\ r.original_status # NULL)
                      => n.original_status # NULL ]_vars

\* C27: in every state reached through check-in, check-out and the edits of
\* managers, every attendance record has a check-in time; a record with a
\* check-out time has it at or after its check-in time and has its total
\* hours; and total hours are never negative.
C27_CheckOutAfterCheckIn ==
    \A r \in attendance :
        /\ r.check_in_time # NULL
        /\ r.check_out_time # NULL
           => /\ Val(r.check_out_time) >= Val(r.check_in_time)
              /\ r.total_hours # NULL
        /\ r.total_hours # NULL => Val(r.total_hours) >= 0

\* a record was checked in, checked out later the same day and edited by a
\* manager: it holds both times and a positive number of hours
C27_Witness ==
    \E r \in attendance :
        /\ r.check_in_time # NULL /\ r.check_out_time # NULL
        /\ Val(r.check_out_time) > Val(r.check_in_time)
        /\ r.modified_by # NULL
        /\ r.total_hours # NULL /\ Val(r.total_hours) > 0

\* C28 as stated: whenever a registration marks an invitation 'accepted',
\* the expiry instant of the invitation has not passed at that moment, also
\* when the invitation was looked up earlier and the form submitted later.
C28_AcceptedWhileUnexpired ==
    [][\A r \in invitations :
          \A n \in invitations' :
             (n.id = r.id /\ r.status # "accepted" /\ n.status = "accepted")
             => r.expires_at >= now ]_vars

\* C29 as stated: a record is checked out at most once: a check-out issued
\* from any session, also one that loaded the record before it was checked
\* out, leaves every record that has a check-out time as it is.
C29_CheckedOutOnce ==
    [][\A s \in Sessions :
          handleCheckOut(s)
          => \A r \in attendance :
                r.check_out_time # NULL
                => \E n \in attendance' :
                      /\ n.id = r.id
                      /\ n.check_out_time = r.check_out_time
                      /\ n.total_hours = r.total_hours ]_vars

\* C30 as stated: a check-out of a record that is checked in and not yet
\* checked out succeeds, whatever time has passed since the check-in and
\* also from a page that loaded the record on an earlier day: the record
\* then holds the check-out time and the elapsed hours, which fit
\* total_hours (less than 100 hours, two decimals).
C30_CheckOutStoresElapsedHours ==
    [][\A s \in Sessions :
          handleCheckOut(s)
          => \A r \in attendance :
                ( /\ r.id = Val(sess[s].todayAttendance).id
                  /\ r.check_in_time # NULL /\ r.check_out_time = NULL )
                => /\ sess'[s].toast = Toast("checkout", "success")
                   /\ \E n \in attendance' :
                         /\ n.id = r.id
                         /\ n.check_out_time = Some(now)
                         /\ n.total_hours =
                               Some(RoundHundredths(now - Val(r.check_in_time)))
                         /\ Val(n.total_hours) < 100 * 100 ]_vars

====
